---------------------------- MODULE Spec2Model ----------------------------
(***************************************************************************)
(* CovidTracer backend (app.py, models.py): the /notify admission handler  *)
(* and the /cases.json feed over the two tables daily_keys and requests.   *)
(*                                                                         *)
(* Time is counted in minutes since 00:00 UTC of day 0; a date is a day    *)
(* number.  A daily key value (a hexadecimal string) is an integer: a      *)
(* non-negative integer stands for a string of the expected 64 characters, *)
(* a negative one for a string of another length.  A comment is modelled   *)
(* by its length.                                                          *)
(***************************************************************************)
EXTENDS Integers, Sequences, FiniteSets, TLC

VARIABLES
    now,          \* datetime.datetime.utcnow(), in minutes
    daily_keys,   \* table daily_keys: set of DailyKey rows
    requests,     \* table requests: set of Request rows
    attempts,     \* access log: per resolved address, the times of the notify
                  \* requests answered (kept under SpecRate only)
    last,         \* the last request handled and the response returned
    session       \* the notify requests handled step by step, in order of
                  \* arrival: each one's form, position in the handler and response

vars == <<now, daily_keys, requests, attempts, last, session>>

----------------------------------------------------------------------------
(* Program constants *)

INCUBATION_PERIOD == 5
SYMPTOMS_TO_VIRUS_NEGATIVE == 11
INFECTION_PERIOD == INCUBATION_PERIOD + SYMPTOMS_TO_VIRUS_NEGATIVE
DAILY_KEY_SIZE == 256 \div 8
MAX_COMMENT_LEN == 1000
MAX_REQUESTS_PER_HOUR == 5
RELEASE_HOUR == 12

MinutesPerHour == 60
MinutesPerDay == 24 * MinutesPerHour

\* datetime.date() and datetime.time().hour of a datetime
DateOf(t) == t \div MinutesPerDay
HourOf(t) == (t % MinutesPerDay) \div MinutesPerHour
\* datetime.datetime.combine(date, datetime.time(hour=h))
Combine(d, h) == d * MinutesPerDay + h * MinutesPerHour

\* len() of a key value string
ValueLen(v) == IF v >= 0 THEN DAILY_KEY_SIZE * 2 ELSE DAILY_KEY_SIZE * 2 - 1

----------------------------------------------------------------------------
(* Helpers on sequences *)

RECURSIVE Insert(_, _)
Insert(x, s) ==
    IF s = <<>> THEN <<x>>
    ELSE IF x <= Head(s) THEN <<x>> \o s
    ELSE <<Head(s)>> \o Insert(x, Tail(s))

\* Python's sorted() on a list of dates
RECURSIVE sorted(_)
sorted(s) == IF s = <<>> THEN <<>> ELSE Insert(Head(s), sorted(Tail(s)))

----------------------------------------------------------------------------
(* NotifyForm *)

\* DailyKeyForm: the per-entry validators (date required, value of 64 characters)
DailyKeyFormValid(key) ==
    ValueLen(key.value) = DAILY_KEY_SIZE * 2

\* validate_keys without the loop over the sorted dates
validate_keys_NoGapCheck(data, utcnow) ==
    IF Len(data) = 0 THEN TRUE
    ELSE
        LET key_values == {data[i].value : i \in 1..Len(data)}
            key_dates == sorted([i \in 1..Len(data) |-> data[i].date])
        IN  /\ Cardinality(key_values) = INCUBATION_PERIOD + SYMPTOMS_TO_VIRUS_NEGATIVE
            /\ ~(key_dates[1] > DateOf(utcnow))

\* validate_keys with the future-date check on the latest date
validate_keys_LatestDate(data, utcnow) ==
    IF Len(data) = 0 THEN TRUE
    ELSE
        LET key_values == {data[i].value : i \in 1..Len(data)}
            key_dates == sorted([i \in 1..Len(data) |-> data[i].date])
        IN  /\ Cardinality(key_values) = INCUBATION_PERIOD + SYMPTOMS_TO_VIRUS_NEGATIVE
            /\ \A i \in 2..Len(key_dates) : key_dates[i] = key_dates[i - 1] + 1
            /\ ~(key_dates[Len(key_dates)] > DateOf(utcnow))

\* NotifyForm.validate_keys: TRUE when no ValidationError is raised
validate_keys(data, utcnow) ==
    IF Len(data) = 0 THEN TRUE
    ELSE
        LET expected_keys_count == INCUBATION_PERIOD + SYMPTOMS_TO_VIRUS_NEGATIVE
            key_values == {data[i].value : i \in 1..Len(data)}
        IN  IF Cardinality(key_values) # expected_keys_count THEN FALSE
            ELSE
                LET key_dates == sorted([i \in 1..Len(data) |-> data[i].date])
                IN  IF \E i \in 2..Len(key_dates) :
                            key_dates[i] # key_dates[i - 1] + 1
                    THEN FALSE
                    ELSE ~(key_dates[1] > DateOf(utcnow))

\* form.validate(): every field validator and the inline validator of keys
FormValidate(req, utcnow) ==
    /\ req.comment <= MAX_COMMENT_LEN
    /\ \A i \in 1..Len(req.keys) : DailyKeyFormValid(req.keys[i])
    /\ validate_keys(req.keys, utcnow)

----------------------------------------------------------------------------
(* notify *)

\* already_exists matching the whole primary key (date, key)
AlreadyExistsSameDate(keys) ==
    LET pairs == {<<keys[i].date, keys[i].value>> : i \in 1..Len(keys)}
    IN  Cardinality({k \in daily_keys : <<k.date, k.key>> \in pairs})

\* already_exists: DailyKey rows whose key is one of the submitted values
AlreadyExists(keys) ==
    LET values == {keys[i].value : i \in 1..Len(keys)}
    IN  Cardinality({k \in daily_keys : k.key \in values})

\* remote_addr: the first X-Forwarded-For address when there is one
ResolveAddr(req) ==
    IF req.xff = <<>> THEN req.remote_addr ELSE req.xff[1]

\* prev_reporting_count without the filter on remote_addr
PrevReportingCountAnyAddr(remote_addr, utcnow) ==
    LET one_hour_ago == utcnow - MinutesPerHour
    IN  Cardinality({r \in requests : r.created_at >= one_hour_ago})

\* prev_reporting_count without the filter on created_at
PrevReportingCountEver(remote_addr, utcnow) ==
    Cardinality({r \in requests : r.remote_addr = remote_addr})

\* prev_reporting_count: Request rows of the address in the trailing hour
PrevReportingCount(remote_addr, utcnow) ==
    LET one_hour_ago == utcnow - MinutesPerHour
    IN  Cardinality({r \in requests :
            r.remote_addr = remote_addr /\ r.created_at >= one_hour_ago})

RateLimitedOneEarly(prev_reporting_count) ==
    prev_reporting_count >= MAX_REQUESTS_PER_HOUR - 1

\* if prev_reporting_count >= 5: return 'Too many requests', 429
RateLimited(prev_reporting_count) ==
    prev_reporting_count >= MAX_REQUESTS_PER_HOUR

\* the DailyKey rows added to the session, one per submitted entry
NewDailyKeys(req, utcnow) ==
    {[date |-> req.keys[i].date, key |-> req.keys[i].value,
      created_at |-> utcnow, is_tested |-> req.is_tested] : i \in 1..Len(req.keys)}

\* the Request row added to the session
NewRequest(req, remote_addr, utcnow) ==
    [id |-> Cardinality(requests) + 1, created_at |-> utcnow,
     remote_addr |-> remote_addr, user_agent |-> req.user_agent,
     comment |-> req.comment]

\* The primary key (date, key) of daily_keys: a commit that would store two rows
\* with the same (date, key) fails.
PrimaryKeyViolation(req) ==
    LET pk(i) == <<req.keys[i].date, req.keys[i].value>>
        added == {pk(i) : i \in 1..Len(req.keys)}
    IN  \/ Cardinality(added) # Len(req.keys)
        \/ \E k \in daily_keys : <<k.date, k.key>> \in added

\* the status with the rate-limit check ahead of the duplicate check
NotifyStatus_RateFirst(req) ==
    IF ~FormValidate(req, now) THEN 400
    ELSE IF RateLimited(PrevReportingCount(ResolveAddr(req), now)) THEN 429
    ELSE IF AlreadyExists(req.keys) > 0 THEN 403
    ELSE IF PrimaryKeyViolation(req) THEN 500
    ELSE 201

\* The status notify returns for req
NotifyStatus(req) ==
    IF ~FormValidate(req, now) THEN 400
    ELSE IF AlreadyExists(req.keys) > 0 THEN 403
    ELSE IF RateLimited(PrevReportingCount(ResolveAddr(req), now)) THEN 429
    ELSE IF PrimaryKeyViolation(req) THEN 500
    ELSE 201

NoRequest == [remote_addr |-> "none", xff |-> <<>>, user_agent |-> "none",
              is_tested |-> FALSE, comment |-> 0, keys |-> <<>>]

\* notify writing its Request row for the refused requests as well
Notify_LogsRefused(req) ==
    LET status == NotifyStatus(req)
        remote_addr == ResolveAddr(req)
    IN  /\ IF status = 201
           THEN daily_keys' = daily_keys \cup NewDailyKeys(req, now)
           ELSE UNCHANGED daily_keys
        /\ requests' = requests \cup {NewRequest(req, remote_addr, now)}
        /\ last' = [op |-> "notify", at |-> now, status |-> status,
                    req |-> req, cases |-> <<>>]
        /\ UNCHANGED now

Notify(req) ==
    LET status == NotifyStatus(req)
        remote_addr == ResolveAddr(req)
    IN  /\ IF status = 201
           THEN /\ daily_keys' = daily_keys \cup NewDailyKeys(req, now)
                /\ requests' = requests \cup {NewRequest(req, remote_addr, now)}
           ELSE UNCHANGED <<daily_keys, requests>>
        /\ last' = [op |-> "notify", at |-> now, status |-> status,
                    req |-> req, cases |-> <<>>]
        /\ UNCHANGED now

----------------------------------------------------------------------------
(* notify, handled by several workers at once *)

(***************************************************************************)
(* Each HTTP request has its own SQLAlchemy session.  The two queries of   *)
(* notify read the committed rows of the tables at the time they run (read *)
(* committed); the rows added to the session reach the tables at commit(), *)
(* all of them in one transaction.  The steps of different requests        *)
(* interleave between the statements that touch the database.              *)
(***************************************************************************)

\* form.validate() and the already_exists query of a request that arrives
Receive(req) ==
    LET status == IF ~FormValidate(req, now) THEN 400
                  ELSE IF AlreadyExists(req.keys) > 0 THEN 403
                  ELSE 0
    IN  /\ session' = Append(session,
              [req |-> req, remote_addr |-> ResolveAddr(req),
               phase |-> IF status = 0 THEN "checked" ELSE "done",
               status |-> status, error |-> "none", at |-> now])
        /\ UNCHANGED <<now, daily_keys, requests, attempts, last>>

\* the count of the Request rows of the address; past it, the rows of the request
\* are added to the session
RateCheck(i) ==
    /\ session[i].phase = "checked"
    /\ session' = [session EXCEPT ![i] =
          IF RateLimited(PrevReportingCount(session[i].remote_addr, now))
          THEN [@ EXCEPT !.phase = "done", !.status = 429, !.at = now]
          ELSE [@ EXCEPT !.phase = "pending"]]
    /\ UNCHANGED <<now, daily_keys, requests, attempts, last>>

\* commit() leaving the Request row out of the transaction
Commit_KeysOnly(i) ==
    /\ session[i].phase = "pending"
    /\ IF PrimaryKeyViolation(session[i].req)
       THEN /\ session' = [session EXCEPT ![i] =
                  [@ EXCEPT !.phase = "done", !.status = 500,
                            !.error = "IntegrityError", !.at = now]]
            /\ UNCHANGED <<daily_keys, requests>>
       ELSE /\ daily_keys' = daily_keys \cup NewDailyKeys(session[i].req, now)
            /\ UNCHANGED requests
            /\ session' = [session EXCEPT ![i] =
                  [@ EXCEPT !.phase = "done", !.status = 201, !.at = now]]
    /\ UNCHANGED <<now, attempts, last>>

\* db.session.commit(): the INSERTs of the session in one transaction.  A row
\* whose (date, key) is taken raises IntegrityError, which notify does not catch:
\* the transaction is rolled back and the response is 500.
Commit(i) ==
    /\ session[i].phase = "pending"
    /\ IF PrimaryKeyViolation(session[i].req)
       THEN /\ session' = [session EXCEPT ![i] =
                  [@ EXCEPT !.phase = "done", !.status = 500,
                            !.error = "IntegrityError", !.at = now]]
            /\ UNCHANGED <<daily_keys, requests>>
       ELSE /\ daily_keys' = daily_keys \cup NewDailyKeys(session[i].req, now)
            /\ requests' = requests \cup
                  {NewRequest(session[i].req, session[i].remote_addr, now)}
            /\ session' = [session EXCEPT ![i] =
                  [@ EXCEPT !.phase = "done", !.status = 201, !.at = now]]
    /\ UNCHANGED <<now, attempts, last>>

\* The worker or its connection fails after the rows were added and before the
\* commit went through: the transaction is rolled back, nothing is stored.
Fail(i) ==
    /\ session[i].phase = "pending"
    /\ session' = [session EXCEPT ![i] =
          [@ EXCEPT !.phase = "done", !.status = 500,
                    !.error = "Failure", !.at = now]]
    /\ UNCHANGED <<now, daily_keys, requests, attempts, last>>

\* the requests a worker is busy with
InFlight == {i \in 1..Len(session) : session[i].phase # "done"}

----------------------------------------------------------------------------
(* cases *)

\* min_creation_at with the midnight release only
MinCreationAtMidnight(utcnow) ==
    Combine(DateOf(utcnow), 0)

\* min_creation_at: the most recent release instant (00:00 or 12:00 of today)
MinCreationAt(utcnow) ==
    IF HourOf(utcnow) >= RELEASE_HOUR
    THEN Combine(DateOf(utcnow), RELEASE_HOUR)
    ELSE Combine(DateOf(utcnow), 0)

\* the filters of cases() with the lower date bound included
ActiveKeysFromMinDate(utcnow) ==
    {k \in daily_keys :
        /\ k.date >= DateOf(utcnow) - INFECTION_PERIOD
        /\ k.date < DateOf(utcnow)
        /\ k.created_at <= MinCreationAt(utcnow)}

\* the filters of cases() without the upper bound on the date
ActiveKeys_NoMaxDate(utcnow) ==
    {k \in daily_keys :
        /\ k.date > DateOf(utcnow) - INFECTION_PERIOD
        /\ k.created_at <= MinCreationAt(utcnow)}

\* the filters of the query of cases()
ActiveKeys(utcnow) ==
    LET today == DateOf(utcnow)
        min_date == today - INFECTION_PERIOD
        max_date == today
    IN  {k \in daily_keys :
            /\ k.date > min_date
            /\ k.date < max_date
            /\ k.created_at <= MinCreationAt(utcnow)}

\* .order_by(DailyKey.key): every order of the rows that is ascending by key;
\* rows with equal keys come in an order the query does not fix.
RECURSIVE OrderByKey(_)
OrderByKey(rows) ==
    IF rows = {} THEN {<<>>}
    ELSE LET firsts == {r \in rows : \A q \in rows : r.key <= q.key}
         IN  UNION {{<<r>> \o t : t \in OrderByKey(rows \ {r})} : r \in firsts}

\* the JSON record of one key
CaseRecord(k) ==
    [key |-> k.key, date |-> k.date,
     type |-> IF k.is_tested THEN "positive" ELSE "symptomatic"]

\* cases() deleting the keys that are older than the infection period
Cases_PurgeExpired ==
    /\ \E keys \in OrderByKey(ActiveKeys(now)) :
          last' = [op |-> "cases", at |-> now, status |-> 200, req |-> NoRequest,
                   cases |-> [i \in 1..Len(keys) |-> CaseRecord(keys[i])]]
    /\ daily_keys' = {k \in daily_keys : k.date > DateOf(now) - INFECTION_PERIOD}
    /\ UNCHANGED <<now, requests, attempts, session>>

Cases ==
    /\ \E keys \in OrderByKey(ActiveKeys(now)) :
          last' = [op |-> "cases", at |-> now, status |-> 200, req |-> NoRequest,
                   cases |-> [i \in 1..Len(keys) |-> CaseRecord(keys[i])]]
    /\ UNCHANGED <<now, daily_keys, requests, attempts, session>>

----------------------------------------------------------------------------
(* The clock *)

Tick(instants) ==
    /\ \E t \in instants : t > now /\ now' = t
    /\ UNCHANGED <<daily_keys, requests, attempts, last, session>>
----------------------------------------------------------------------------
(* The requests the clients send *)

Addrs == {"A", "B"}

\* A batch of n entries: values base, base+1, ...; with rep the last entry repeats
\* the value of the one before it; with badlen the first value has a wrong length.
\* Dates: "run" start, start+1, ...; "rev" the same run sent latest first; "gap"
\* skips a day in the middle; "dup" repeats a day in the middle.
Batch(shape, base, start) ==
    [i \in 1..shape.n |->
        [value |-> IF shape.badlen /\ i = 1 THEN 0 - (base + 1)
                   ELSE IF shape.rep /\ i = shape.n THEN base + i - 2
                   ELSE base + i - 1,
         date  |-> CASE shape.dates = "run" -> start + i - 1
                     [] shape.dates = "rev" -> start + shape.n - i
                     [] shape.dates = "gap" ->
                            start + i - 1 + (IF 2 * i > shape.n THEN 1 ELSE 0)
                     [] shape.dates = "dup" ->
                            start + i - 1 - (IF 2 * i > shape.n THEN 1 ELSE 0)]]

Shape(n, rep, dates, badlen) ==
    [n |-> n, rep |-> rep, dates |-> dates, badlen |-> badlen]

ValidShape == Shape(INFECTION_PERIOD, FALSE, "run", FALSE)
\* one entry more than expected, two entries sharing a value
RepeatShape == Shape(INFECTION_PERIOD + 1, TRUE, "run", FALSE)

Request(remote_addr, xff, is_tested, comment, keys) ==
    [remote_addr |-> remote_addr, xff |-> xff, user_agent |-> "ua",
     is_tested |-> is_tested, comment |-> comment, keys |-> keys]

InitAt(t) ==
    /\ now = t
    /\ daily_keys = {}
    /\ requests = {}
    /\ attempts = [a \in Addrs |-> <<>>]
    /\ last = [op |-> "none", at |-> t, status |-> 0, req |-> NoRequest,
               cases |-> <<>>]
    /\ session = <<>>

\* notify, the access log left alone
NotifyPlain(req) ==
    /\ Notify(req)
    /\ UNCHANGED <<attempts, session>>

\* notify, the request entered in the access log
NotifyLogged(req) ==
    /\ Notify(req)
    /\ attempts' = [attempts EXCEPT ![ResolveAddr(req)] = Append(@, now)]
    /\ UNCHANGED session

TotalAttempts == Len(attempts["A"]) + Len(attempts["B"])

----------------------------------------------------------------------------
(* Admission: batches of every shape against a store of a few submissions *)

\* notify is called while the requests table holds at most MaxStored rows
MaxStored == 1

Instants == {Combine(0, RELEASE_HOUR), Combine(1, RELEASE_HOUR)}

Shapes ==
    {Shape(0, FALSE, "run", FALSE),
     ValidShape,
     Shape(INFECTION_PERIOD, FALSE, "rev", FALSE),
     Shape(INFECTION_PERIOD - 1, FALSE, "run", FALSE),
     Shape(INFECTION_PERIOD + 1, FALSE, "run", FALSE),
     RepeatShape,
     Shape(INFECTION_PERIOD, TRUE, "run", FALSE),
     Shape(INFECTION_PERIOD, FALSE, "gap", FALSE),
     Shape(INFECTION_PERIOD, FALSE, "dup", FALSE),
     Shape(INFECTION_PERIOD + 1, TRUE, "gap", FALSE),
     Shape(INFECTION_PERIOD, FALSE, "run", TRUE)}

\* blocks of key values: neighbouring blocks share half of their values
KeyBases == {0, INFECTION_PERIOD \div 2, INFECTION_PERIOD}

\* first dates: today or earlier, or tomorrow, depending on the day
StartDates == {0, 1}

\* every shape on two overlapping blocks of values; the valid shape on every
\* block and first date; a proxied request and an overlong comment
Requests ==
    {Request("A", <<>>, FALSE, 0, Batch(shape, base, 0)) :
        shape \in Shapes, base \in {0, INFECTION_PERIOD \div 2}}
    \cup
    {Request("A", <<>>, FALSE, 0, Batch(ValidShape, base, start)) :
        base \in KeyBases, start \in StartDates}
    \cup
    {Request("A", <<"B", "A">>, TRUE, MAX_COMMENT_LEN, Batch(ValidShape, 0, 0)),
     Request("A", <<>>, FALSE, MAX_COMMENT_LEN + 1, Batch(ValidShape, 0, 0))}

Next ==
    \/ \E req \in Requests : Cardinality(requests) <= MaxStored /\ NotifyPlain(req)
    \/ Cases
    \/ Tick(Instants)

Spec == InitAt(Combine(0, RELEASE_HOUR)) /\ [][Next]_vars

----------------------------------------------------------------------------
(* Rate limiting: many requests of few shapes within and beyond one hour *)

MaxRateRequests == 6

RateStart == Combine(0, RELEASE_HOUR)
RateInstants == {RateStart + m : m \in {0, MinutesPerHour, MinutesPerHour + 1}}

\* The next block of key values no stored row uses yet
FreshBase == INFECTION_PERIOD * Cardinality(requests)

\* "A" sends directly, "B" through a proxy that sets X-Forwarded-For
RateRequests ==
    {Request("A", <<>>, FALSE, 0, Batch(ValidShape, base, 0)) :
        base \in {FreshBase, 0}}
    \cup
    {Request("A", <<"B", "A">>, FALSE, 0, Batch(ValidShape, base, 0)) :
        base \in {FreshBase, 0}}
    \cup
    {Request("A", <<>>, FALSE, MAX_COMMENT_LEN + 1, Batch(ValidShape, FreshBase, 0)),
     Request("A", <<"B", "A">>, FALSE, 0,
             Batch(Shape(INFECTION_PERIOD - 1, FALSE, "run", FALSE), FreshBase, 0))}

NextRate ==
    \/ \E req \in RateRequests : TotalAttempts < MaxRateRequests /\ NotifyLogged(req)
    \/ Tick(RateInstants)

SpecRate == InitAt(RateStart) /\ [][NextRate]_vars

----------------------------------------------------------------------------
(* Waiting out the rate limit: one more request than the limit and its retry *)

MaxRetryRequests == 7

\* valid batches of fresh key values, sent by "A" directly and by "B" by proxy
RetryRequests ==
    {Request("A", xff, FALSE, 0, Batch(ValidShape, FreshBase, 0)) :
        xff \in {<<>>, <<"B", "A">>}}

NextRetry ==
    \/ \E req \in RetryRequests :
          TotalAttempts < MaxRetryRequests /\ NotifyLogged(req)
    \/ Tick(RateInstants)

SpecRetry == InitAt(RateStart) /\ [][NextRetry]_vars

----------------------------------------------------------------------------
(* Concurrent submissions that share key values *)

\* requests received in all, and requests in the handler at one time
MaxRacing == 3
MaxInFlight == 2

RaceStart == Combine(0, RELEASE_HOUR)
RaceInstants == {RaceStart, RaceStart + 1}

\* one batch; a batch with the same values under other dates; a batch of which
\* half of the entries have the (date, value) of entries of the first
RaceRequests ==
    {Request("A", <<>>, FALSE, 0, Batch(ValidShape, 0, 1 - INFECTION_PERIOD)),
     Request("A", <<>>, TRUE, 0, Batch(ValidShape, 0, 0)),
     Request("B", <<>>, TRUE, 0,
             Batch(ValidShape, INFECTION_PERIOD \div 2,
                   1 - INFECTION_PERIOD + INFECTION_PERIOD \div 2))}

NextRace ==
    \/ \E req \in RaceRequests :
          /\ Len(session) < MaxRacing
          /\ Cardinality(InFlight) < MaxInFlight
          /\ Receive(req)
    \/ \E i \in 1..Len(session) : RateCheck(i)
    \/ \E i \in 1..Len(session) : Commit(i)
    \/ \E i \in 1..Len(session) : Fail(i)
    \/ Cases
    \/ Tick(RaceInstants)

SpecRace == InitAt(RaceStart) /\ [][NextRace]_vars

----------------------------------------------------------------------------
(* Concurrent submissions of one address around the rate limit *)

MaxBurst == 6

BurstInstants == {RateStart, RateStart + MinutesPerHour + 1}

\* every request brings a block of key values of its own
BurstRequests ==
    {Request("A", <<>>, FALSE, 0,
             Batch(ValidShape, INFECTION_PERIOD * Len(session), 0))}

NextBurst ==
    \/ \E req \in BurstRequests :
          /\ Len(session) < MaxBurst
          /\ Cardinality(InFlight) < MaxInFlight
          /\ Receive(req)
    \/ \E i \in 1..Len(session) : RateCheck(i)
    \/ \E i \in 1..Len(session) : Commit(i)
    \/ \E i \in 1..Len(session) : Fail(i)
    \/ Tick(BurstInstants)

SpecBurst == InitAt(RateStart) /\ [][NextBurst]_vars

----------------------------------------------------------------------------
(* The feed: few submissions, read around the release instants of two days *)

\* notify is called while the requests table holds at most MaxFeedStored rows
MaxFeedStored == 1

FeedInstants ==
    {Combine(d, h) + m : d \in {0, 1}, h \in {0, RELEASE_HOUR}, m \in {0, 1}}
    \cup {Combine(d, RELEASE_HOUR) - 1 : d \in {0, 1}}

FeedRequests ==
    {Request("A", <<>>, FALSE, 0, Batch(ValidShape, 0, 0 - INFECTION_PERIOD)),
     Request("A", <<>>, TRUE, 0, Batch(RepeatShape, INFECTION_PERIOD, 0 - INFECTION_PERIOD)),
     Request("A", <<>>, TRUE, 0, Batch(ValidShape, 2 * INFECTION_PERIOD, 0))}

NextFeed ==
    \/ \E req \in FeedRequests :
          Cardinality(requests) <= MaxFeedStored /\ NotifyPlain(req)
    \/ Cases
    \/ Tick(FeedInstants)

SpecFeed == InitAt(0) /\ [][NextFeed]_vars
----------------------------------------------------------------------------
(* What the claims speak of, stated on their own terms *)

Values(keys) == {keys[i].value : i \in 1..Len(keys)}
Dates(keys) == {keys[i].date : i \in 1..Len(keys)}
MinDate(keys) == CHOOSE d \in Dates(keys) : \A e \in Dates(keys) : d <= e
MaxDate(keys) == CHOOSE d \in Dates(keys) : \A e \in Dates(keys) : d >= e

PairwiseDistinct(keys) ==
    \A i, j \in 1..Len(keys) : i # j => keys[i].value # keys[j].value

\* the dates, once sorted, are a run of consecutive days: no day twice, and no
\* day but the latest without its next day
ConsecutiveDays(keys) ==
    /\ Len(keys) > 0
    /\ Cardinality(Dates(keys)) = Len(keys)
    /\ Cardinality({d \in Dates(keys) : d + 1 \notin Dates(keys)}) = 1

\* the per-field validators pass: 64-character key values, a comment of at most
\* 1000 characters
FieldsValid(req) ==
    /\ req.comment <= 1000
    /\ \A v \in Values(req.keys) : v >= 0

\* a batch as the specification wants it, but for the future-date rule
SixteenDistinctConsecutive(keys) ==
    /\ Len(keys) = 16
    /\ PairwiseDistinct(keys)
    /\ ConsecutiveDays(keys)

\* a submission that passes structural validation at time t
StructurallyValid(req, t) ==
    /\ FieldsValid(req)
    /\ \/ Len(req.keys) = 0
       \/ /\ Cardinality(Values(req.keys)) = 16
          /\ ConsecutiveDays(req.keys)
          /\ MinDate(req.keys) <= t \div (24 * 60)

StoredValues == {k.key : k \in daily_keys}

SourceAddr(req) == IF Len(req.xff) > 0 THEN Head(req.xff) ELSE req.remote_addr

\* the request-log rows of an address within the hour that ends at t
RowsInWindow(addr, t) ==
    {r \in requests : r.remote_addr = addr /\ r.created_at >= t - 60}

\* a step in which notify answers the request last'.req with last'.status
NotifyStep == last'.op = "notify" /\ now' = now

StoreUnchanged == daily_keys' = daily_keys /\ requests' = requests

\* the store gains one DailyKey row per entry of the batch, one Request row of
\* the source address, and nothing else
StoreGains(req) ==
    /\ daily_keys \subseteq daily_keys'
    /\ daily_keys' \ daily_keys =
          {[date |-> req.keys[i].date, key |-> req.keys[i].value,
            created_at |-> now, is_tested |-> req.is_tested] : i \in 1..Len(req.keys)}
    /\ Cardinality(daily_keys' \ daily_keys) = Len(req.keys)
    /\ requests \subseteq requests'
    /\ Cardinality(requests' \ requests) = 1
    /\ \A r \in requests' \ requests :
          r.remote_addr = SourceAddr(req) /\ r.created_at = now

----------------------------------------------------------------------------
(* C1 *)

C1Batch(req) ==
    /\ SixteenDistinctConsecutive(req.keys)
    /\ MinDate(req.keys) <= now \div (24 * 60)
    /\ Values(req.keys) \cap StoredValues = {}
    /\ Cardinality(RowsInWindow(SourceAddr(req), now)) < 5

\* C1 as stated: every submission whose batch has exactly 16 entries with pairwise
\* distinct values and consecutive dates, the earliest not after today, none of
\* the values stored, and whose source has fewer than 5 request-log rows in the
\* trailing hour is answered 201 and stores exactly its 16 rows and one Request row.
C1_AsStated ==
    [][NotifyStep /\ C1Batch(last'.req)
          => last'.status = 201 /\ StoreGains(last'.req)]_vars

\* C1 amended: the same, for the submissions that also pass the per-field
\* validators (every key value 64 characters long, the comment at most 1000).
C1_ValidBatchCommitted ==
    [][NotifyStep /\ FieldsValid(last'.req) /\ C1Batch(last'.req)
          => last'.status = 201 /\ StoreGains(last'.req)]_vars

\* a 16-entry batch accepted from a source that already had 4 rows in the hour
C1_Witness ==
    /\ last.op = "notify" /\ last.status = 201
    /\ SixteenDistinctConsecutive(last.req.keys)
    /\ Cardinality(RowsInWindow(SourceAddr(last.req), last.at)) = 5
    /\ Cardinality({k \in daily_keys : k.created_at = last.at
                        /\ k.key \in Values(last.req.keys)}) = 16
----------------------------------------------------------------------------
(* C2 *)

\* C2: a structurally valid submission holding at least one key value that is
\* already stored, under whatever date, is answered 403 and stores nothing.
C2_DuplicateRejectsWholeBatch ==
    [][NotifyStep /\ StructurallyValid(last'.req, now)
                  /\ Values(last'.req.keys) \cap StoredValues # {}
          => last'.status = 403 /\ StoreUnchanged]_vars

\* a 403 for a batch of which some values are stored and some are not
C2_Witness ==
    /\ last.op = "notify" /\ last.status = 403
    /\ Values(last.req.keys) \cap StoredValues # {}
    /\ Values(last.req.keys) \ StoredValues # {}

----------------------------------------------------------------------------
(* C4 *)

\* C4 as stated: notify answers 201 only to batches of exactly 16 entries with
\* pairwise distinct values; a batch of another size, the empty one included, or
\* with a repeated value is answered 400.
C4_AsStated ==
    last.op = "notify" =>
        LET ok == Len(last.req.keys) = 16 /\ PairwiseDistinct(last.req.keys)
        IN  /\ last.status = 201 => ok
            /\ ~ok => last.status = 400

----------------------------------------------------------------------------
(* C5 *)

\* C5: a non-empty batch whose sorted dates are not a run of consecutive days is
\* answered 400 and stores nothing, whatever its values, its size, the store and
\* the request log; the rows one accepted submission adds cover consecutive days.
C5_GapRejected ==
    [][NotifyStep =>
          /\ (Len(last'.req.keys) > 0 /\ ~ConsecutiveDays(last'.req.keys))
                => last'.status = 400 /\ StoreUnchanged
          /\ last'.status = 201 =>
                LET added == {k.date : k \in daily_keys' \ daily_keys}
                IN  Cardinality({d \in added : d + 1 \notin added}) <= 1]_vars

\* a 400 for a batch that only its dates make invalid
C5_Witness ==
    /\ last.op = "notify" /\ last.status = 400
    /\ FieldsValid(last.req)
    /\ Len(last.req.keys) = 16 /\ PairwiseDistinct(last.req.keys)
    /\ MinDate(last.req.keys) <= last.at \div (24 * 60)
    /\ ~ConsecutiveDays(last.req.keys)

----------------------------------------------------------------------------
(* C6 *)

\* C6: of the dates of an otherwise valid batch only the earliest counts: with it
\* after today the answer is 400; with it today or earlier the batch is accepted
\* (its values not stored, its source not rate limited), future dates or not.
C6_EarliestDateOnly ==
    [][NotifyStep /\ FieldsValid(last'.req)
                  /\ SixteenDistinctConsecutive(last'.req.keys)
          => /\ MinDate(last'.req.keys) > now \div (24 * 60)
                  => last'.status = 400 /\ StoreUnchanged
             /\ (/\ MinDate(last'.req.keys) <= now \div (24 * 60)
                 /\ Values(last'.req.keys) \cap StoredValues = {}
                 /\ Cardinality(RowsInWindow(SourceAddr(last'.req), now)) < 5)
                  => last'.status = 201]_vars

\* a batch accepted although its later dates are in the future
C6_Witness ==
    /\ last.op = "notify" /\ last.status = 201
    /\ SixteenDistinctConsecutive(last.req.keys)
    /\ MinDate(last.req.keys) < last.at \div (24 * 60)
    /\ MaxDate(last.req.keys) > last.at \div (24 * 60)
----------------------------------------------------------------------------
(* C3 *)

\* C3 as stated: once 5 notify requests of an address, accepted or rejected, lie
\* in the trailing hour, a further structurally valid, non-duplicate request of
\* that address is answered 429.
C3_AsStated ==
    [][(/\ NotifyStep
        /\ StructurallyValid(last'.req, now)
        /\ Values(last'.req.keys) \cap StoredValues = {}
        /\ LET log == attempts[SourceAddr(last'.req)]
           IN  Cardinality({i \in 1..Len(log) : log[i] >= now - 60}) >= 5)
          => last'.status = 429]_vars

----------------------------------------------------------------------------
(* C10 *)

\* C10: rate limiting is per source address: a request is answered 429 exactly
\* when it is structurally valid, holds no stored value, and 5 or more request-log
\* rows of its own resolved address lie in the trailing hour; the rows of other
\* addresses never make it a 429.
C10_PerSourceAddress ==
    [][NotifyStep =>
          (last'.status = 429 <=>
              /\ StructurallyValid(last'.req, now)
              /\ Values(last'.req.keys) \cap StoredValues = {}
              /\ Cardinality(RowsInWindow(SourceAddr(last'.req), now)) >= 5)]_vars

\* B is served while A has 5 rows in the same hour
C10_Witness ==
    /\ last.op = "notify" /\ last.status = 201
    /\ SourceAddr(last.req) = "B"
    /\ Cardinality(RowsInWindow("A", last.at)) >= 5

----------------------------------------------------------------------------
(* The feed, stated on its own terms *)

\* 00:00 of the day of t when t is before 12:00, else 12:00 of that day
MostRecentRelease(t) ==
    LET midnight == t - (t % (24 * 60))
    IN  IF t - midnight < 12 * 60 THEN midnight ELSE midnight + 12 * 60

\* the key is one of the records of the last feed
Returned(k) ==
    \E i \in 1..Len(last.cases) :
        last.cases[i].key = k.key /\ last.cases[i].date = k.date

----------------------------------------------------------------------------
(* C7 *)

\* C7: every key cases() returns is dated strictly between today - 16 and today;
\* a stored key dated today - 15 whose created_at is not after the release
\* threshold is returned.
C7_ActiveWindow ==
    last.op = "cases" =>
        LET today == last.at \div (24 * 60)
        IN  /\ \A i \in 1..Len(last.cases) :
                  today - 16 < last.cases[i].date /\ last.cases[i].date < today
            /\ \A k \in daily_keys :
                  (k.date = today - 15 /\ k.created_at <= MostRecentRelease(last.at))
                      => Returned(k)

\* a feed that returns a key dated today - 15 while the store holds a released
\* key dated today - 16 and a released key dated today
C7_Witness ==
    /\ last.op = "cases"
    /\ LET today == last.at \div (24 * 60)
           released == {k \in daily_keys : k.created_at <= MostRecentRelease(last.at)}
       IN  /\ \E k \in released : k.date = today - 15 /\ Returned(k)
           /\ \E k \in released : k.date = today - 16 /\ ~Returned(k)
           /\ \E k \in released : k.date = today /\ ~Returned(k)

----------------------------------------------------------------------------
(* C8 *)

\* C8: cases() returns no key created after the most recent release instant, and
\* returns a key created at 00:01 whenever it is called from 12:00 of that day on
\* with the date of the key in the active window.
C8_ReleaseThreshold ==
    last.op = "cases" =>
        LET today == last.at \div (24 * 60)
        IN  /\ \A k \in daily_keys :
                  k.created_at > MostRecentRelease(last.at) => ~Returned(k)
            /\ \A k \in daily_keys :
                  (/\ k.created_at % (24 * 60) = 1
                   /\ last.at >= k.created_at - 1 + 12 * 60
                   /\ today - 16 < k.date /\ k.date < today)
                      => Returned(k)

\* a feed of 12:00 or later that returns a key created at 00:01 of the same day,
\* the store also holding a key that is withheld for being too recent
C8_Witness ==
    /\ last.op = "cases"
    /\ \E k \in daily_keys :
          /\ k.created_at % (24 * 60) = 1
          /\ k.created_at \div (24 * 60) = last.at \div (24 * 60)
          /\ last.at >= k.created_at - 1 + 12 * 60
          /\ Returned(k)
    /\ \E k \in daily_keys :
          /\ k.created_at > MostRecentRelease(last.at)
          /\ k.date < last.at \div (24 * 60)

----------------------------------------------------------------------------
(* C9 *)

\* C9 as stated: the records of a feed are in ascending order of key, and two
\* calls of cases() at the same time on the same store return the same sequence.
C9_AsStated ==
    [][/\ last'.op = "cases" =>
              \A i, j \in 1..Len(last'.cases) :
                  i < j => last'.cases[i].key <= last'.cases[j].key
       /\ (/\ last.op = "cases" /\ last'.op = "cases"
           /\ last.at = now /\ now' = now
           /\ daily_keys' = daily_keys)
              => last'.cases = last.cases]_vars

----------------------------------------------------------------------------
(* C11 *)

\* C11: a submission answered 429 and sent again by the same address, once fewer
\* than 5 request-log rows of the address lie in the trailing hour, its values
\* still not stored and its dates still valid, is answered 201 and stored.
C11_RetryAfterWindow ==
    [][(/\ NotifyStep
        /\ last.op = "notify" /\ last.status = 429
        /\ last'.req = last.req
        /\ StructurallyValid(last'.req, now)
        /\ Values(last'.req.keys) \cap StoredValues = {}
        /\ Cardinality(RowsInWindow(SourceAddr(last'.req), now)) < 5)
          => last'.status = 201 /\ StoreGains(last'.req)]_vars

\* a seventh request of an address accepted more than an hour after its first five
\* were, the sixth having been refused
C11_Witness ==
    /\ last.op = "notify" /\ last.status = 201
    /\ LET a == SourceAddr(last.req)
           mine == {r \in requests : r.remote_addr = a}
       IN  /\ Len(attempts[a]) = 7
           /\ Cardinality(mine) = 6
           /\ Cardinality({r \in mine : r.created_at < last.at - 60}) = 5
           /\ attempts[a][7] = last.at

----------------------------------------------------------------------------
(* C13 *)

\* C13: a notify request answered 400, 403 or 429 leaves both tables exactly as
\* they were; a notify request that changes a table is answered 201.
C13_FailureLeavesStore ==
    [][NotifyStep =>
          /\ last'.status \in {400, 403, 429} => StoreUnchanged
          /\ ~StoreUnchanged => last'.status = 201]_vars

\* a 429 after which the request log still holds the five rows that caused it
C13_Witness ==
    /\ last.op = "notify" /\ last.status = 429
    /\ Cardinality(RowsInWindow(SourceAddr(last.req), last.at)) = 5
    /\ \A r \in requests : r.created_at = last.at => r.id <= 5
    /\ Cardinality(daily_keys) = 16 * Cardinality(requests)

----------------------------------------------------------------------------
(* C14 *)

----------------------------------------------------------------------------
(* C18 *)

\* C18: the store is append-only: no step removes a DailyKey or Request row or
\* changes a field of one, created_at included; cases() changes neither table, so
\* the keys it does not return stay stored.
C18_AppendOnly ==
    [][/\ daily_keys \subseteq daily_keys'
       /\ requests \subseteq requests'
       /\ \A k \in daily_keys : \A q \in daily_keys' :
              (q.date = k.date /\ q.key = k.key) => q = k
       /\ \A r \in requests : \A q \in requests' : q.id = r.id => q = r
       /\ (last'.op = "cases" /\ now' = now) => StoreUnchanged]_vars

\* a feed that returns some keys while the store also holds a key that is out of
\* the active window for good
C18_Witness ==
    /\ last.op = "cases" /\ Len(last.cases) > 0
    /\ requests # {}
    /\ \E k \in daily_keys :
          k.date + 16 <= last.at \div (24 * 60) /\ ~Returned(k)

----------------------------------------------------------------------------
(* C19 *)

\* C19 as stated: with notify requests handled one after the other, every key
\* value is in at most one DailyKey row of the table: never under two dates,
\* never in the rows of two submissions.
C19_AsStated ==
    \A k \in daily_keys : \A q \in daily_keys : q.key = k.key => q = k

----------------------------------------------------------------------------
(* C20 *)

\* the key is one of the records of the feed
InFeed(feed, k) ==
    \E i \in 1..Len(feed) : feed[i].key = k.key /\ feed[i].date = k.date

\* the times at which the claim has the key with date d and creation time c returned
VisibleAt(k, t) ==
    /\ k.created_at <= MostRecentRelease(t)
    /\ k.date < t \div (24 * 60)
    /\ t \div (24 * 60) < k.date + 16

\* C20: cases() returns a stored key with date d and creation time c exactly when
\* c <= mostRecentRelease(now) and d < today(now) < d + 16; a key one feed returned
\* is returned by the next feed as long as today is before d + 16, and a key whose
\* date was 16 days or more before an earlier feed is not returned.
C20_VisibilityInterval ==
    [][(last'.op = "cases" /\ now' = now) =>
          /\ \A k \in daily_keys : InFeed(last'.cases, k) <=> VisibleAt(k, now)
          /\ \A i \in 1..Len(last'.cases) :
                 \E k \in daily_keys :
                     k.key = last'.cases[i].key /\ k.date = last'.cases[i].date
          /\ last.op = "cases" =>
                 \A k \in daily_keys :
                     /\ (InFeed(last.cases, k) /\ now \div (24 * 60) < k.date + 16)
                            => InFeed(last'.cases, k)
                     /\ last.at \div (24 * 60) >= k.date + 16
                            => ~InFeed(last'.cases, k)]_vars

\* a feed of the day on which a key that the feeds of the day before could return
\* has left the active window, next to keys that are still returned
C20_Witness ==
    /\ last.op = "cases" /\ Len(last.cases) > 0
    /\ \E k \in daily_keys :
          /\ k.date + 16 = last.at \div (24 * 60)
          /\ k.created_at \div (24 * 60) < last.at \div (24 * 60)
          /\ VisibleAt(k, last.at - 24 * 60)
          /\ ~InFeed(last.cases, k)

----------------------------------------------------------------------------
(* C12 *)

\* C12 as stated: whatever the order and the interleaving of the notify requests,
\* for every address and every instant t at most 5 Request rows of the address
\* have created_at within the hour that ends at t.
C12_AsStated ==
    \A a \in {r.remote_addr : r \in requests} :
        \A t \in {r.created_at : r \in requests} \cup {now} :
            Cardinality({r \in requests :
                /\ r.remote_addr = a
                /\ t - 60 <= r.created_at /\ r.created_at <= t}) <= 5

----------------------------------------------------------------------------
(* Concurrent submissions, stated on their own terms *)

\* the requests answered 201
Committed == {i \in 1..Len(session) : session[i].status = 201}

\* the DailyKey rows of the submission of request i, as its commit writes them
RowsOf(i) ==
    LET keys == session[i].req.keys
    IN  {[date |-> keys[n].date, key |-> keys[n].value,
          created_at |-> session[i].at,
          is_tested |-> session[i].req.is_tested] : n \in 1..Len(keys)}

----------------------------------------------------------------------------
(* C15 *)

\* C15: in every state, also after a failure between the adding of the rows and
\* the commit, the store is made of whole submissions: the DailyKey table is the
\* union of all rows of the submissions answered 201 and the Request table has
\* one row for each of them; a feed taken meanwhile holds all the rows of a
\* submission that pass its filters or none of them.
C15_AtomicCommit ==
    /\ daily_keys = UNION {RowsOf(i) : i \in Committed}
    /\ Cardinality(requests) = Cardinality(Committed)
    /\ \A i \in Committed :
          \E r \in requests :
              /\ r.remote_addr = SourceAddr(session[i].req)
              /\ r.created_at = session[i].at
    /\ last.op = "cases" =>
          /\ \A n \in 1..Len(last.cases) :
                 \E k \in daily_keys :
                     k.key = last.cases[n].key /\ k.date = last.cases[n].date
          /\ \A i \in Committed :
                 LET shown == {k \in RowsOf(i) : VisibleAt(k, last.at)}
                 IN  \/ \A k \in shown : InFeed(last.cases, k)
                     \/ \A k \in shown : ~InFeed(last.cases, k)

\* one request failed between adding its rows and the commit, another was
\* committed, and a feed returned keys of the committed one
C15_Witness ==
    /\ \E i \in 1..Len(session) : session[i].error = "Failure"
    /\ \E i \in Committed : \E k \in RowsOf(i) : InFeed(last.cases, k)
    /\ last.op = "cases"
    /\ InFlight # {}

----------------------------------------------------------------------------
(* C16 *)

\* C16 as stated: of two submissions that share a key value and are handled
\* concurrently at most one commits, under every interleaving: no two committed
\* submissions have a key value in common.
C16_AsStated ==
    \A i \in Committed : \A j \in Committed :
        i # j => Values(session[i].req.keys) \cap Values(session[j].req.keys) = {}

----------------------------------------------------------------------------
(* C17 *)

\* C17 as stated: a submission that passed the duplicate check and whose commit
\* then violates the uniqueness constraint of the table is answered 403, and none
\* of its rows is stored.
C17_AsStated ==
    \A i \in 1..Len(session) :
        session[i].error = "IntegrityError" =>
            /\ session[i].status = 403
            /\ RowsOf(i) \cap daily_keys \subseteq
                   UNION {RowsOf(j) : j \in Committed}

=============================================================================
